---- MODULE Spec2Model ----
(***************************************************************************)
(* Model of the password generator (src/main.rs).                          *)
(*                                                                         *)
(* Bytes and characters are their code points (b"A" is 65).  A string is   *)
(* the sequence of its characters.  The operating system's random source   *)
(* is an input: the `tape` handed to generate_password holds, for each     *)
(* call of SliceRandom::choose on a non-empty slice, the index (1-based)   *)
(* the library drew.                                                       *)
(*                                                                         *)
(* Two specifications:                                                     *)
(*   Spec     one run of main, from the parsed command line to exit;       *)
(*   SpecGen  generate_password called on its own with an arbitrary        *)
(*            length and an arbitrary (possibly empty) byte slice.         *)
(***************************************************************************)
EXTENDS Integers, Sequences, FiniteSets

VARIABLES
    pc,        \* position in main ("check_length" .. "exited"), or in the direct call
    args,      \* the parsed Cli struct
    charset,   \* main's `charset` Vec<u8> / the slice handed to generate_password
    password,  \* the String returned by generate_password
    draws,     \* number of indices drawn from OsRng so far
    panicked,  \* TRUE once expect("Charset must not be empty") has fired
    stdout,    \* characters written to standard output
    stderr,    \* messages written to standard error
    exitCode   \* process exit status, -1 while the process runs

vars == <<pc, args, charset, password, draws, panicked, stdout, stderr, exitCode>>

----------------------------------------------------------------------------
(* Bounds of the model *)

\* main is run with every length in 0..MaxLength (and with the default length)
MaxLength == 9
\* random tapes of a main run start at offsets 0..MaxSeed from either end of the charset
MaxSeed == 2
\* and advance by 0..MaxStride positions per draw
MaxStride == 3
\* direct calls of generate_password use lengths 0..MaxGenLength
MaxGenLength == 3
\* and slices of at most MaxCharsetLen bytes
MaxCharsetLen == 3

----------------------------------------------------------------------------
(* Program constants *)

UPPERCASE ==
    <<65, 66, 67, 68, 69, 70, 71, 72, 73, 74, 75, 76, 77,
      78, 79, 80, 81, 82, 83, 84, 85, 86, 87, 88, 89, 90>>

LOWERCASE ==
    <<97, 98, 99, 100, 101, 102, 103, 104, 105, 106, 107, 108, 109,
      110, 111, 112, 113, 114, 115, 116, 117, 118, 119, 120, 121, 122>>

DIGITS == <<48, 49, 50, 51, 52, 53, 54, 55, 56, 57>>

\* SYMBOLS with its last character lost
SYMBOLS_Short ==
    <<33, 64, 35, 36, 37, 94, 38, 42, 40, 41, 45, 95, 61, 43,
      91, 93, 123, 125, 59, 58, 44, 46, 60, 62>>

\* b"!@#$%^&*()-_=+[]{};:,.<>?"
SYMBOLS ==
    <<33, 64, 35, 36, 37, 94, 38, 42, 40, 41, 45, 95, 61, 43,
      91, 93, 123, 125, 59, 58, 44, 46, 60, 62, 63>>

\* default_value_t of Cli::length
DefaultLength == 16

\* the literal of `args.length < 8`
MinLength == 8

LengthError == "Error: Password length must be at least 8 characters."

CharsetError == "Error: Character set is empty. Please check your flags."

PanicMessage == "Charset must not be empty"

\* the line terminator println! writes
Newline == 10

----------------------------------------------------------------------------
(* generate_password *)

\* Option<&u8>
None == [some |-> FALSE]

Some(b) == [some |-> TRUE, val |-> b]

\* SliceRandom::choose as generate_password uses it: None on an empty slice,
\* otherwise the element at the index drawn from the random source.
choose(slice, idx) ==
    IF Len(slice) = 0 THEN None ELSE Some(slice[idx])

\* `u8 as char`: the character whose code point is the byte's value
AsChar(b) == b

\* (i..length).map(|_| *charset.choose(&mut rng).expect(..) as char).collect()
\* The result records the String built, the number of indices drawn, and
\* whether expect panicked (which abandons the String).
RECURSIVE CollectChars(_, _, _, _)
CollectChars(i, length, slice, tape) ==
    IF i >= length
    THEN [ret |-> << >>, draws |-> 0, panicked |-> FALSE]
    ELSE LET c == choose(slice, IF Len(slice) = 0 THEN 0 ELSE tape[i + 1])
         IN  IF ~c.some
             THEN [ret |-> << >>, draws |-> 0, panicked |-> TRUE]
             ELSE LET rest == CollectChars(i + 1, length, slice, tape)
                  IN  [ret      |-> IF rest.panicked THEN << >>
                                    ELSE <<AsChar(c.val)>> \o rest.ret,
                       draws    |-> 1 + rest.draws,
                       panicked |-> rest.panicked]

\* the map starts at 1 instead of 0
generate_password_SkipFirst(length, slice, tape) ==
    IF Len(slice) = 0
    THEN [ret |-> << >>, draws |-> 0, panicked |-> FALSE]
    ELSE CollectChars(1, length, slice, tape)

\* the is_empty guard is missing
generate_password_NoGuard(length, slice, tape) ==
    CollectChars(0, length, slice, tape)

generate_password(length, slice, tape) ==
    IF Len(slice) = 0
    THEN [ret |-> << >>, draws |-> 0, panicked |-> FALSE]
    ELSE CollectChars(0, length, slice, tape)

----------------------------------------------------------------------------
(* main *)

\* `<=` written for `<`
LengthTooShort_Inclusive(length) == length <= MinLength

LengthTooShort(length) == length < MinLength

\* only_letters is not consulted
BuildCharset_IgnoreOnlyLetters(only_letters, no_numbers, no_symbols) ==
    UPPERCASE \o LOWERCASE
        \o (IF ~no_numbers THEN DIGITS ELSE << >>)
        \o (IF ~no_symbols THEN SYMBOLS ELSE << >>)

\* the two exclusion flags are exchanged
BuildCharset_SwappedFlags(only_letters, no_numbers, no_symbols) ==
    UPPERCASE \o LOWERCASE
        \o (IF only_letters THEN << >>
            ELSE (IF ~no_symbols THEN DIGITS ELSE << >>)
                 \o (IF ~no_numbers THEN SYMBOLS ELSE << >>))

\* symbols are appended before digits
BuildCharset_SymbolsFirst(only_letters, no_numbers, no_symbols) ==
    UPPERCASE \o LOWERCASE
        \o (IF only_letters THEN << >>
            ELSE (IF ~no_symbols THEN SYMBOLS ELSE << >>)
                 \o (IF ~no_numbers THEN DIGITS ELSE << >>))

\* the letters are appended in the else branch only
BuildCharset_LettersInElse(only_letters, no_numbers, no_symbols) ==
    IF only_letters THEN << >>
    ELSE UPPERCASE \o LOWERCASE
            \o (IF ~no_numbers THEN DIGITS ELSE << >>)
            \o (IF ~no_symbols THEN SYMBOLS ELSE << >>)

\* UPPERCASE is appended twice, LOWERCASE never
BuildCharset_UpperTwice(only_letters, no_numbers, no_symbols) ==
    UPPERCASE \o UPPERCASE
        \o (IF only_letters THEN << >>
            ELSE (IF ~no_numbers THEN DIGITS ELSE << >>)
                 \o (IF ~no_symbols THEN SYMBOLS ELSE << >>))

\* Vec::new(), then the extend_from_slice calls of main
BuildCharset(only_letters, no_numbers, no_symbols) ==
    LET v0 == << >>
        v1 == v0 \o UPPERCASE
        v2 == v1 \o LOWERCASE
    IN  IF only_letters
        THEN v2
        ELSE LET v3 == IF ~no_numbers THEN v2 \o DIGITS ELSE v2
                 v4 == IF ~no_symbols THEN v3 \o SYMBOLS ELSE v3
             IN  v4

\* The command lines of the model: any length up to MaxLength with any flags,
\* and the flags alone, which leaves the length at its default.
CliArgs ==
    [length : (0..MaxLength) \cup {DefaultLength},
     no_symbols : BOOLEAN, no_numbers : BOOLEAN, only_letters : BOOLEAN]

\* Random tapes of a main run: `length` indices into a slice of k bytes, starting
\* near either end and advancing by a fixed stride (0 repeats one character).
SampleTapes(length, k) ==
    IF k = 0 THEN { << >> }
    ELSE { [i \in 1..length |-> 1 + ((s + (i - 1) * d) % k)] :
               s \in (0..MaxSeed) \cup {(k - 1 - j) % k : j \in 0..MaxSeed},
               d \in 0..MaxStride }

Init ==
    /\ pc = "check_length"
    /\ args \in CliArgs
    /\ charset = << >>
    /\ password = << >>
    /\ draws = 0
    /\ panicked = FALSE
    /\ stdout = << >>
    /\ stderr = << >>
    /\ exitCode = -1

\* if args.length < 8 { eprintln!(..); exit(1) }
CheckLength ==
    /\ pc = "check_length"
    /\ IF LengthTooShort(args.length)
       THEN /\ stderr' = Append(stderr, LengthError)
            /\ exitCode' = 1
            /\ pc' = "exited"
       ELSE /\ pc' = "build_charset"
            /\ UNCHANGED <<stderr, exitCode>>
    /\ UNCHANGED <<args, charset, password, draws, panicked, stdout>>

\* let mut charset = Vec::new(); ... extend_from_slice ...
ConstructCharset ==
    /\ pc = "build_charset"
    /\ charset' = BuildCharset(args.only_letters, args.no_numbers, args.no_symbols)
    /\ pc' = "check_charset"
    /\ UNCHANGED <<args, password, draws, panicked, stdout, stderr, exitCode>>

\* if charset.is_empty() { eprintln!(..); exit(1) }
CheckCharset ==
    /\ pc = "check_charset"
    /\ IF Len(charset) = 0
       THEN /\ stderr' = Append(stderr, CharsetError)
            /\ exitCode' = 1
            /\ pc' = "exited"
       ELSE /\ pc' = "generate"
            /\ UNCHANGED <<stderr, exitCode>>
    /\ UNCHANGED <<args, charset, password, draws, panicked, stdout>>

\* let password = generate_password(args.length, &charset);
\* a panic unwinds main: message on standard error, exit status 101
Generate ==
    /\ pc = "generate"
    /\ \E tape \in SampleTapes(args.length, Len(charset)) :
         LET r == generate_password(args.length, charset, tape)
         IN  /\ password' = r.ret
             /\ draws' = draws + r.draws
             /\ panicked' = r.panicked
             /\ IF r.panicked
                THEN /\ stderr' = Append(stderr, PanicMessage)
                     /\ exitCode' = 101
                     /\ pc' = "exited"
                ELSE /\ pc' = "print"
                     /\ UNCHANGED <<stderr, exitCode>>
    /\ UNCHANGED <<args, charset, stdout>>

\* println!("{}", password); then main returns
PrintPassword ==
    /\ pc = "print"
    /\ stdout' = stdout \o password \o <<Newline>>
    /\ exitCode' = 0
    /\ pc' = "exited"
    /\ UNCHANGED <<args, charset, password, draws, panicked, stderr>>

Next ==
    \/ CheckLength
    \/ ConstructCharset
    \/ CheckCharset
    \/ Generate
    \/ PrintPassword

Spec == Init /\ [][Next]_vars

----------------------------------------------------------------------------
(* generate_password called directly *)

\* the bytes the slices of a direct call are made of
GenBytes == {97, 98}

\* every slice of at most MaxCharsetLen bytes, the empty one and repeats included
GenCharsets == UNION { [1..n -> GenBytes] : n \in 0..MaxCharsetLen }

\* every tape of `length` indices into a slice of k bytes
AllTapes(length, k) ==
    IF k = 0 THEN { << >> } ELSE [1..length -> 1..k]

InitGen ==
    /\ pc = "call"
    /\ args \in [length : 0..MaxGenLength,
                 no_symbols : {FALSE}, no_numbers : {FALSE}, only_letters : {FALSE}]
    /\ charset \in GenCharsets
    /\ password = << >>
    /\ draws = 0
    /\ panicked = FALSE
    /\ stdout = << >>
    /\ stderr = << >>
    /\ exitCode = -1

CallGenerate ==
    /\ pc = "call"
    /\ \E tape \in AllTapes(args.length, Len(charset)) :
         LET r == generate_password(args.length, charset, tape)
         IN  /\ password' = r.ret
             /\ draws' = r.draws
             /\ panicked' = r.panicked
             /\ pc' = IF r.panicked THEN "panicked" ELSE "returned"
    /\ UNCHANGED <<args, charset, stdout, stderr, exitCode>>

NextGen == CallGenerate

SpecGen == InitGen /\ [][NextGen]_vars

----------------------------------------------------------------------------
(* Properties *)

Range(s) == { s[i] : i \in DOMAIN s }

NoRepeat(s) == Cardinality(Range(s)) = Len(s)

\* main has run past the construction of the charset
CharsetBuilt ==
    \/ pc \in {"check_charset", "generate", "print"}
    \/ pc = "exited" /\ args.length >= MinLength

DefaultArgs ==
    [length |-> DefaultLength,
     no_symbols |-> FALSE, no_numbers |-> FALSE, only_letters |-> FALSE]

\* C1: called with any length >= 0 and a non-empty charset, generate_password
\* returns (it does not panic) a string of exactly `length` characters, each a
\* member of the charset; for length 0 that string is empty.
C1_SampleLengthAndMembership ==
    (pc # "call" /\ Len(charset) > 0) =>
        /\ pc = "returned"
        /\ ~panicked
        /\ Len(password) = args.length
        /\ \A i \in 1..Len(password) : password[i] \in Range(charset)
        /\ (args.length = 0 => password = << >>)
        /\ draws = args.length

C1_Witness ==
    /\ pc = "returned"
    /\ Len(charset) >= 2
    /\ args.length >= 2
    /\ Cardinality(Range(password)) >= 2

\* C2: a run with length < 8 never builds the charset, never draws entropy and
\* never writes to standard output, and it exits with status 1 and the length
\* message on standard error; the length check itself precedes construction and
\* draws; a run with length >= 8 that has exited wrote exactly one line, the
\* generated password, to standard output.
C2_LengthValidation ==
    /\ pc = "check_length" =>
           charset = << >> /\ draws = 0 /\ stdout = << >> /\ stderr = << >>
    /\ args.length < 8 =>
           /\ pc \in {"check_length", "exited"}
           /\ charset = << >> /\ password = << >> /\ draws = 0
           /\ stdout = << >>
           /\ pc = "exited" => exitCode = 1 /\ stderr = <<LengthError>>
    /\ (args.length >= 8 /\ pc = "exited") =>
           /\ exitCode = 0
           /\ stderr = << >>
           /\ stdout = password \o <<Newline>>
           /\ Newline \notin Range(password)
           /\ Len(password) = args.length

C2_Witness ==
    /\ pc = "exited"
    /\ args.length = 7
    /\ exitCode = 1
    /\ stdout = << >>

\* C3: with only_letters set the charset is exactly UPPERCASE followed by
\* LOWERCASE (52 characters, no digit, no symbol) whatever no_numbers and
\* no_symbols are, and equals the charset of only_letters=false,
\* no_numbers=true, no_symbols=true.
C3_OnlyLettersOverrides ==
    (CharsetBuilt /\ args.only_letters) =>
        /\ charset = UPPERCASE \o LOWERCASE
        /\ Len(charset) = 52
        /\ Range(charset) \cap (Range(DIGITS) \cup Range(SYMBOLS)) = {}
        /\ charset = BuildCharset(FALSE, TRUE, TRUE)

C3_Witness ==
    /\ pc = "print"
    /\ args.only_letters /\ ~args.no_numbers /\ ~args.no_symbols
    /\ Len(charset) = 52

\* C4: without only_letters the digits are in the charset, all of them, iff
\* no_numbers is false, and the symbols, all of them, iff no_symbols is false.
C4_IndependentToggles ==
    (CharsetBuilt /\ ~args.only_letters) =>
        /\ IF args.no_numbers
           THEN Range(DIGITS) \cap Range(charset) = {}
           ELSE Range(DIGITS) \subseteq Range(charset)
        /\ IF args.no_symbols
           THEN Range(SYMBOLS) \cap Range(charset) = {}
           ELSE Range(SYMBOLS) \subseteq Range(charset)

C4_Witness ==
    /\ pc = "print"
    /\ ~args.only_letters /\ args.no_numbers /\ ~args.no_symbols
    /\ Range(SYMBOLS) \subseteq Range(charset)
    /\ Range(DIGITS) \cap Range(charset) = {}

\* the classes the flags select, in canonical order
SelectedClasses(a) ==
    <<UPPERCASE,
      LOWERCASE,
      IF ~a.only_letters /\ ~a.no_numbers THEN DIGITS ELSE << >>,
      IF ~a.only_letters /\ ~a.no_symbols THEN SYMBOLS ELSE << >>>>

\* a class if any of its characters occurs in the charset, else nothing
IfPresent(class) ==
    IF Range(class) \cap Range(charset) # {} THEN class ELSE << >>

\* C5: in every run the charset is the same function of the three flags, and it
\* is the concatenation of the classes present in it in the order Uppercase,
\* Lowercase, Digit, Symbol.
C5_DeterministicCanonicalOrder ==
    CharsetBuilt =>
        /\ LET sel == SelectedClasses(args)
           IN  charset = sel[1] \o sel[2] \o sel[3] \o sel[4]
        /\ charset = IfPresent(UPPERCASE) \o IfPresent(LOWERCASE)
                        \o IfPresent(DIGITS) \o IfPresent(SYMBOLS)

C5_Witness ==
    /\ pc = "print"
    /\ ~args.only_letters /\ ~args.no_numbers /\ ~args.no_symbols
    /\ charset[53] = DIGITS[1]
    /\ charset[63] = SYMBOLS[1]

\* C6 as stated: the default run prints 16 characters from a pool of 72.
C6_Original ==
    (args = DefaultArgs /\ pc = "exited") =>
        /\ Len(password) = 16
        /\ Range(password) \subseteq Range(charset)
        /\ Len(charset) = 72

\* C6 amended: the default run (length 16, no flag set) prints 16 characters
\* drawn from the full pool, which has 26 + 26 + 10 + 25 = 87 characters.
C6_DefaultPool ==
    (args = DefaultArgs /\ pc = "exited") =>
        /\ Len(password) = 16
        /\ Range(password) \subseteq Range(charset)
        /\ stdout = password \o <<Newline>>
        /\ Len(charset) = 87
        /\ Len(SYMBOLS) = 25

C6_Witness ==
    /\ args = DefaultArgs
    /\ pc = "exited"
    /\ exitCode = 0
    /\ Len(stdout) = 17

\* C7: called with an empty charset, generate_password returns the empty string
\* for every length, without panicking and without drawing any entropy.
C7_EmptyCharsetNoOp ==
    (pc # "call" /\ Len(charset) = 0) =>
        /\ pc = "returned"
        /\ ~panicked
        /\ password = << >>
        /\ draws = 0

C7_Witness ==
    /\ pc = "returned"
    /\ Len(charset) = 0
    /\ args.length = MaxGenLength
    /\ password = << >>

\* C8: the charset main checks and hands to generate_password starts with all of
\* UPPERCASE then all of LOWERCASE, so it is not empty; the empty-charset error
\* exit is never taken and the expect in generate_password never panics.
C8_CharsetNeverEmpty ==
    /\ pc \in {"check_charset", "generate", "print"} =>
           /\ Len(charset) >= 52
           /\ SubSeq(charset, 1, 26) = UPPERCASE
           /\ SubSeq(charset, 27, 52) = LOWERCASE
    /\ CharsetError \notin Range(stderr)
    /\ PanicMessage \notin Range(stderr)
    /\ ~panicked
    /\ exitCode \in {-1, 0, 1}
    /\ exitCode = 1 => stderr = <<LengthError>>

C8_Witness ==
    /\ pc = "print"
    /\ args.only_letters
    /\ Len(password) = args.length
    /\ draws = args.length

\* C10: the charset has no repeated character: the four classes are pairwise
\* disjoint and free of duplicates, and the charset has 52, 62, 77 or 87
\* characters, all distinct.
C10_NoRepeatedCharacter ==
    CharsetBuilt =>
        /\ NoRepeat(charset)
        /\ Len(charset) \in {52, 62, 77, 87}
        /\ Len(charset) = 52 + (IF Range(DIGITS) \subseteq Range(charset) THEN 10 ELSE 0)
                             + (IF Range(SYMBOLS) \subseteq Range(charset)
                                THEN Len(SYMBOLS) ELSE 0)
        /\ \A c \in {UPPERCASE, LOWERCASE, DIGITS, SYMBOLS} : NoRepeat(c)
        /\ \A c, d \in {UPPERCASE, LOWERCASE, DIGITS, SYMBOLS} :
               c # d => Range(c) \cap Range(d) = {}

C10_Witness ==
    /\ pc = "print"
    /\ Len(charset) = 77
    /\ NoRepeat(charset)

====
